---- MODULE Spec2Model ----
(***************************************************************************)
(* Hotel room reservation: the inventory held by App (src/src/App.jsx),    *)
(* the allocator findBestAllocation and the three handlers bookRooms,      *)
(* generateRandomOccupancy and resetBooking.                               *)
(*                                                                         *)
(* An inventory is a function floor -> sequence of rooms, a room being a   *)
(* record [number, booked].  Sequences are 1-based; the code's array       *)
(* indices are 0-based, so array[i] of the code is seq[i + 1] here.        *)
(* A JavaScript number is a record [nan, val]: NaN is [nan |-> TRUE].      *)
(***************************************************************************)
EXTENDS Integers, Sequences, FiniteSets, TLC

VARIABLES
    rooms,       \* App's state `rooms` (useState, App.jsx:24)
    lastOp,      \* the handler that ran last: "init", "book", "random", "reset"
    num,         \* argument of the last bookRooms call
    called,      \* the last bookRooms call invoked findBestAllocation
    allocation,  \* what findBestAllocation returned to the last bookRooms call
    before,      \* the inventory as it was when the last handler started
    afterAlloc,  \* the inventory as findBestAllocation left it (last bookRooms call)
    alert,       \* the alert the last bookRooms call raised: "none", "range", "not_enough"
    error,       \* exception thrown by the last handler: "none", "TypeError"
    commits,     \* bookings committed since the last reset / randomize
    previous,    \* the value `rooms` held when the last bookRooms call started, as
                 \* that value reads after the call
    taken,       \* numbers of the rooms selected by the bookings committed so
                 \* far (a history recorded by SpecBookings only)
    numRooms     \* ControlPanel's state `numRooms`: the text of the input field

vars == <<rooms, lastOp, num, called, allocation, before, afterAlloc, alert, error, commits,
          previous, taken, numRooms>>

----------------------------------------------------------------------------
(* Program constants *)

NumFloors == 10
RoomsPerFloor == 10
TopFloorRooms == 7
MinBook == 1
MaxBook == 5

(* Bounds of the model *)

\* bookRooms is no longer taken once MaxCommits bookings were committed since
\* the last reset / randomize
MaxCommits == 4
\* integer arguments of bookRooms range over -1 .. MaxNum (and NaN)
MaxNum == 6
\* a randomize outcome leaves at most MaxFree rooms unbooked
MaxFree == 5

Floors == 1..NumFloors

----------------------------------------------------------------------------
(* JavaScript numbers and comparisons *)

Num(n) == [nan |-> FALSE, val |-> n]
NaN == [nan |-> TRUE, val |-> 0]

\* a < b, a > b, a >= b, a === b on numbers: every comparison with NaN is false
JsLt(a, b) == ~a.nan /\ ~b.nan /\ a.val < b.val
JsGt(a, b) == ~a.nan /\ ~b.nan /\ a.val > b.val
JsGe(a, b) == ~a.nan /\ ~b.nan /\ a.val >= b.val
JsEq(a, b) == ~a.nan /\ ~b.nan /\ a.val = b.val

----------------------------------------------------------------------------
(* initializeRooms *)

\* Faulty variant: every floor, the top one included, gets RoomsPerFloor rooms
RoomCountUniform(floor) == RoomsPerFloor

RoomCount(floor) == IF floor = NumFloors THEN TopFloorRooms ELSE RoomsPerFloor
Base(floor) == IF floor = NumFloors THEN 1000 ELSE floor * 100

initializeRooms ==
    [floor \in Floors |->
        [i \in 1..RoomCount(floor) |-> [number |-> Base(floor) + i, booked |-> FALSE]]]

----------------------------------------------------------------------------
(* Array helpers used by findBestAllocation *)

\* Faulty variant: the filter keeps every room
FilterAvailableAll(floorRooms) == floorRooms

\* array.filter((room) => !room.booked): a new array, order kept
FilterAvailable(floorRooms) == SelectSeq(floorRooms, LAMBDA room : ~room.booked)

\* array.findIndex((r) => r.number === n): 0-based index of the first match, -1 if none
RECURSIVE FindIndexFrom(_, _, _)
FindIndexFrom(floorRooms, n, i) ==
    IF i >= Len(floorRooms) THEN -1
    ELSE IF floorRooms[i + 1].number = n THEN i
    ELSE FindIndexFrom(floorRooms, n, i + 1)

\* Faulty variant: the index is reported 1-based
FindIndexOneBased(floorRooms, n) == FindIndexFrom(floorRooms, n, 0) + 1

FindIndex(floorRooms, n) == FindIndexFrom(floorRooms, n, 0)

\* comparator (a, b) => a.number - b.number
CompareRooms(a, b) == a.number - b.number

\* stable insertion of x into a sequence sorted by CompareRooms
RECURSIVE InsertRoom(_, _)
InsertRoom(sorted, x) ==
    IF sorted = <<>> THEN <<x>>
    ELSE IF CompareRooms(sorted[Len(sorted)], x) <= 0 THEN Append(sorted, x)
    ELSE Append(InsertRoom(SubSeq(sorted, 1, Len(sorted) - 1), x), sorted[Len(sorted)])

\* available.sort((a, b) => a.number - b.number): a stable sort of the filtered array
RECURSIVE SortRooms(_)
SortRooms(seq) ==
    IF seq = <<>> THEN <<>>
    ELSE InsertRoom(SortRooms(SubSeq(seq, 1, Len(seq) - 1)), seq[Len(seq)])

\* array.slice(0, end) for a number end
Slice0(seq, end) ==
    LET len == Len(seq)
        e == IF end.nan THEN 0
             ELSE IF end.val < 0 THEN (IF len + end.val < 0 THEN 0 ELSE len + end.val)
             ELSE IF end.val > len THEN len ELSE end.val
    IN SubSeq(seq, 1, e)

----------------------------------------------------------------------------
(* findBestAllocation *)

\* Faulty variant: Priority 1 scans the floors from the top floor down
RECURSIVE SameFloorTopDown(_, _, _)
SameFloorTopDown(inv, n, floor) ==
    IF floor > NumFloors THEN [found |-> FALSE, allocation |-> <<>>]
    ELSE LET f == NumFloors + 1 - floor
             available == FilterAvailable(inv[f])
         IN IF JsGe(Num(Len(available)), n)
            THEN LET picked == Slice0(SortRooms(available), n)
                 IN [found |-> TRUE,
                     allocation |->
                        [k \in 1..Len(picked) |->
                           [floor |-> f,
                            index |-> FindIndex(inv[f], picked[k].number)]]]
            ELSE SameFloorTopDown(inv, n, floor + 1)

\* Priority 1 (the loop of lines 49-62, entered at `floor`): the selection of
\* the first floor whose available rooms number at least num
RECURSIVE SameFloor(_, _, _)
SameFloor(inv, n, floor) ==
    IF floor > NumFloors THEN [found |-> FALSE, allocation |-> <<>>]
    ELSE LET available == FilterAvailable(inv[floor]) IN
         IF JsGe(Num(Len(available)), n)
         THEN LET sortedAvailable == SortRooms(available)
                  picked == Slice0(sortedAvailable, n)
              IN [found |-> TRUE,
                  allocation |->
                     [k \in 1..Len(picked) |->
                        [floor |-> floor,
                         index |-> FindIndex(inv[floor], picked[k].number)]]]
         ELSE SameFloor(inv, n, floor + 1)

AvailableLength(inv, floor) == Len(FilterAvailable(inv[floor]))

\* Faulty variant: ties in available rooms go to the higher floor
CompareFloorsTieHigh(inv, a, b) ==
    LET availableA == AvailableLength(inv, a)
        availableB == AvailableLength(inv, b)
    IN IF availableB # availableA THEN availableB - availableA ELSE b - a

\* comparator of floors.sort: available rooms descending, then floor number ascending
CompareFloors(inv, a, b) ==
    LET availableA == AvailableLength(inv, a)
        availableB == AvailableLength(inv, b)
    IN IF availableB # availableA THEN availableB - availableA ELSE a - b

RECURSIVE InsertFloor(_, _, _)
InsertFloor(inv, sorted, x) ==
    IF sorted = <<>> THEN <<x>>
    ELSE IF CompareFloors(inv, sorted[Len(sorted)], x) <= 0 THEN Append(sorted, x)
    ELSE Append(InsertFloor(inv, SubSeq(sorted, 1, Len(sorted) - 1), x), sorted[Len(sorted)])

\* floors.sort(...) applied to a sequence of floor numbers: a stable sort
RECURSIVE SortFloors(_, _)
SortFloors(inv, seq) ==
    IF seq = <<>> THEN <<>>
    ELSE InsertFloor(inv, SortFloors(inv, SubSeq(seq, 1, Len(seq) - 1)), seq[Len(seq)])

\* the inner loop of lines 81-90 over `available`, entered at its k-th room
RECURSIVE TakeRooms(_, _, _, _, _, _)
TakeRooms(inv, n, floor, available, k, acc) ==
    IF k > Len(available) THEN acc
    ELSE IF JsLt(Num(Len(acc)), n)
         THEN TakeRooms(inv, n, floor, available, k + 1,
                        Append(acc, [floor |-> floor,
                                     index |-> FindIndex(inv[floor], available[k].number)]))
         ELSE acc

\* Faulty variant: the outer loop ends after the first floor it visits
CrossFloorFirstOnly(inv, n, floors, fi, acc) ==
    IF fi > Len(floors) THEN acc
    ELSE TakeRooms(inv, n, floors[fi], FilterAvailable(inv[floors[fi]]), 1, acc)

\* the outer loop of lines 79-92 over the sorted floors, entered at position fi
RECURSIVE CrossFloor(_, _, _, _, _)
CrossFloor(inv, n, floors, fi, acc) ==
    IF fi > Len(floors) THEN acc
    ELSE LET floor == floors[fi]
             available == FilterAvailable(inv[floor])
             acc2 == TakeRooms(inv, n, floor, available, 1, acc)
         IN IF JsEq(Num(Len(acc2)), n) THEN acc2
            ELSE CrossFloor(inv, n, floors, fi + 1, acc2)

\* Array.from({ length: 10 }, (_, i) => i + 1)
FloorList == [i \in 1..NumFloors |-> i]

\* findBestAllocation(rooms, num): the selection it returns, a sequence of
\* [floor, index] with index 0-based
findBestAllocation(inv, n) ==
    LET same == SameFloor(inv, n, 1) IN
    IF same.found THEN same.allocation
    ELSE CrossFloor(inv, n, SortFloors(inv, FloorList), 1, <<>>)

----------------------------------------------------------------------------
(* bookRooms *)

\* lines 39-42: updatedRooms = { ...rooms } is a shallow copy, so
\* updatedRooms[floor][index].booked = true writes the room object itself;
\* forEach, entered at the k-th element of the selection.  A floor or index
\* that does not exist makes the assignment throw a TypeError, the writes
\* already made stay
RECURSIVE ApplyFrom(_, _, _)
ApplyFrom(inv, sel, k) ==
    IF k > Len(sel) THEN [rooms |-> inv, error |-> "none"]
    ELSE LET room == sel[k] IN
         IF room.floor \notin DOMAIN inv \/ (room.index + 1) \notin DOMAIN inv[room.floor]
         THEN [rooms |-> inv, error |-> "TypeError"]
         ELSE ApplyFrom([inv EXCEPT ![room.floor][room.index + 1].booked = TRUE], sel, k + 1)

\* Faulty variant: the write goes to the room after the selected one
ApplySelectionNext(inv, sel) ==
    ApplyFrom(inv, [k \in DOMAIN sel |-> [sel[k] EXCEPT !.index = @ + 1]], 1)

\* Faulty variant: the forEach writes nothing
ApplySelectionNothing(inv, sel) == [rooms |-> inv, error |-> "none"]

ApplySelection(inv, sel) == ApplyFrom(inv, sel, 1)

\* Faulty variant: the allocator marks the rooms it selects as booked
roomsAfterAllocationMarked(inv, n) == ApplySelection(inv, findBestAllocation(inv, n)).rooms

\* the inventory after findBestAllocation(rooms, num) has run: filter builds new
\* arrays, the sorts and pushes act on those, nothing is assigned through `rooms`
roomsAfterAllocation(inv, n) == inv

\* Faulty variant: the lower limit of the range check is 0
OutOfRangeZero(n) == JsLt(n, Num(0)) \/ JsGt(n, Num(MaxBook))

\* the range check of line 27
OutOfRange(n) == JsLt(n, Num(MinBook)) \/ JsGt(n, Num(MaxBook))

\* Faulty variant: the selection is applied first, and the request is failed afterwards
\* when the selection is shorter than num
bookRoomsCommitFirst(inv, n) ==
    IF OutOfRange(n)
    THEN [alert |-> "range", called |-> FALSE, allocation |-> <<>>,
          afterAlloc |-> inv, rooms |-> inv, error |-> "none", committed |-> FALSE]
    ELSE LET found == findBestAllocation(inv, n)
             inv2 == roomsAfterAllocation(inv, n)
             applied == ApplySelection(inv2, found)
         IN IF ~JsEq(Num(Len(found)), n)
            THEN [alert |-> "not_enough", called |-> TRUE, allocation |-> found,
                  afterAlloc |-> inv2, rooms |-> applied.rooms, error |-> applied.error,
                  committed |-> FALSE]
            ELSE [alert |-> "none", called |-> TRUE, allocation |-> found,
                  afterAlloc |-> inv2, rooms |-> applied.rooms,
                  error |-> applied.error, committed |-> TRUE]

\* bookRooms(num) run on the inventory inv: what it alerts, whether and with
\* what result it called findBestAllocation, and the inventory it leaves
bookRooms(inv, n) ==
    IF OutOfRange(n)
    THEN [alert |-> "range", called |-> FALSE, allocation |-> <<>>,
          afterAlloc |-> inv, rooms |-> inv, error |-> "none", committed |-> FALSE]
    ELSE LET found == findBestAllocation(inv, n)
             inv2 == roomsAfterAllocation(inv, n)
         IN IF Len(found) = 0
            THEN [alert |-> "not_enough", called |-> TRUE, allocation |-> found,
                  afterAlloc |-> inv2, rooms |-> inv2, error |-> "none",
                  committed |-> FALSE]
            ELSE LET applied == ApplySelection(inv2, found)
                 IN [alert |-> "none", called |-> TRUE, allocation |-> found,
                     afterAlloc |-> inv2, rooms |-> applied.rooms,
                     error |-> applied.error, committed |-> TRUE]

\* { ...rooms } (line 39) copies the floor keys of rooms, not the arrays they
\* hold: these are the floors whose array, and room objects, the copy shares
\* with the value it was spread from
SharedFloors(inv) == DOMAIN inv

\* the value updatedRooms was spread from, read after the forEach of lines
\* 40-42 has written the selection through updatedRooms
previousAfterCommit(inv, sel) ==
    LET written == ApplySelection(inv, sel).rooms
    IN [f \in DOMAIN inv |-> IF f \in SharedFloors(inv) THEN written[f] ELSE inv[f]]

\* the value `rooms` held when bookRooms(num) started, read after the call
previousAfterBookRooms(inv, n) ==
    LET out == bookRooms(inv, n)
    IN IF out.committed THEN previousAfterCommit(out.afterAlloc, out.allocation)
       ELSE out.afterAlloc

\* the numbers of the rooms a selection refers to in inv
SelectionNumbers(inv, sel) ==
    {inv[r.floor][r.index + 1].number :
        r \in {q \in {sel[k] : k \in DOMAIN sel} :
                  q.floor \in DOMAIN inv /\ (q.index + 1) \in DOMAIN inv[q.floor]}}

NumInputs == {Num(n) : n \in (0 - 1)..MaxNum} \cup {NaN}

BookRooms(n) ==
    /\ commits < MaxCommits
    /\ LET out == bookRooms(rooms, n)
       IN /\ lastOp' = "book"
          /\ num' = n
          /\ before' = rooms
          /\ alert' = out.alert
          /\ called' = out.called
          /\ allocation' = out.allocation
          /\ afterAlloc' = out.afterAlloc
          /\ rooms' = out.rooms
          /\ error' = out.error
          /\ commits' = IF out.committed THEN commits + 1 ELSE commits
          /\ previous' = previousAfterBookRooms(rooms, n)
          /\ numRooms' = numRooms

----------------------------------------------------------------------------
(* generateRandomOccupancy, resetBooking *)

\* rooms that a modelled run of Math.random() may leave unbooked, as
\* <<floor, position>> with position 1-based
CandRooms == ({1} \X {1, 2, TopFloorRooms}) \cup ({2, NumFloors} \X {1, 2})

\* the outcomes of the Math.random() < 0.3 draws: the set of rooms left unbooked
FreeSets == {F \in SUBSET CandRooms : Cardinality(F) <= MaxFree}

\* lines 98-104 under the draws F
randomOccupancy(inv, F) ==
    [floor \in DOMAIN inv |->
        IF floor \in Floors
        THEN [i \in DOMAIN inv[floor] |->
                 [inv[floor][i] EXCEPT !.booked = (<<floor, i>> \notin F)]]
        ELSE inv[floor]]

NoRequest ==
    /\ num' = Num(0)
    /\ called' = FALSE
    /\ allocation' = <<>>
    /\ before' = rooms'
    /\ afterAlloc' = rooms'
    /\ alert' = "none"
    /\ error' = "none"
    /\ commits' = 0
    /\ previous' = rooms'
    /\ taken' = {}
    /\ numRooms' = numRooms

\* generateRandomOccupancy with its draws taken from the outcomes in S
RandomOccupancyFrom(S) ==
    \E F \in S :
        /\ rooms' = randomOccupancy(rooms, F)
        /\ lastOp' = "random"
        /\ NoRequest

GenerateRandomOccupancy == RandomOccupancyFrom(FreeSets)

\* Faulty variant: the reset keeps the current inventory
ResetBookingKeep ==
    /\ rooms' = rooms
    /\ lastOp' = "reset"
    /\ NoRequest

ResetBooking ==
    /\ rooms' = initializeRooms
    /\ lastOp' = "reset"
    /\ NoRequest

----------------------------------------------------------------------------
(* ControlPanel: the input field and handleBooking *)

\* useState(1): the field shows 1; parseInt converts its argument to a string
\* first, so the number 1 reads as the text "1".  A text is a sequence of
\* characters
InitialNumRooms == <<"1">>

\* the texts the field is set to (e.target.value of the number input; the
\* empty text is what an emptied field reports)
FieldTexts == {<<>>, <<"0">>, <<"1">>, <<"3">>, <<"6">>, <<"-", "1">>, <<"2", ".", "5">>}

Digits == {"0", "1", "2", "3", "4", "5", "6", "7", "8", "9"}

DigitValue(c) ==
    CASE c = "0" -> 0 [] c = "1" -> 1 [] c = "2" -> 2 [] c = "3" -> 3 [] c = "4" -> 4
      [] c = "5" -> 5 [] c = "6" -> 6 [] c = "7" -> 7 [] c = "8" -> 8 [] c = "9" -> 9

\* the run of decimal digits of text that starts at position i: how many
\* there are and their value
RECURSIVE ParseDigits(_, _, _, _)
ParseDigits(text, i, count, value) ==
    IF i > Len(text) \/ text[i] \notin Digits THEN [count |-> count, value |-> value]
    ELSE ParseDigits(text, i + 1, count + 1, value * 10 + DigitValue(text[i]))

\* position of the first character of text that is not a blank, from i on
RECURSIVE SkipBlanks(_, _)
SkipBlanks(text, i) ==
    IF i <= Len(text) /\ text[i] = " " THEN SkipBlanks(text, i + 1) ELSE i

\* parseInt(text), radix 10: leading blanks, an optional sign, then the
\* longest run of digits; NaN when there is no digit
parseInt(text) ==
    LET start == SkipBlanks(text, 1)
        signed == start <= Len(text) /\ text[start] \in {"+", "-"}
        negative == signed /\ text[start] = "-"
        run == ParseDigits(text, IF signed THEN start + 1 ELSE start, 0, 0)
    IN IF run.count = 0 THEN NaN
       ELSE Num(IF negative THEN 0 - run.value ELSE run.value)

\* onChange={(e) => setNumRooms(e.target.value)}
SetNumRooms ==
    \E text \in FieldTexts :
        /\ numRooms' = text
        /\ UNCHANGED <<rooms, lastOp, num, called, allocation, before, afterAlloc, alert,
                       error, commits, previous, taken>>

----------------------------------------------------------------------------
(* The application *)

Init ==
    /\ rooms = initializeRooms
    /\ lastOp = "init"
    /\ num = Num(0)
    /\ called = FALSE
    /\ allocation = <<>>
    /\ before = initializeRooms
    /\ afterAlloc = initializeRooms
    /\ alert = "none"
    /\ error = "none"
    /\ commits = 0
    /\ previous = initializeRooms
    /\ taken = {}
    /\ numRooms = InitialNumRooms

Book == \E n \in NumInputs : BookRooms(n) /\ taken' = taken

Next == Book \/ GenerateRandomOccupancy \/ ResetBooking

Spec == Init /\ [][Next]_vars

----------------------------------------------------------------------------
(* The commit step of bookRooms (lines 39-43) on its own, applied to an     *)
(* arbitrary selection                                                      *)

ApplyInventories ==
    {initializeRooms} \cup
    {randomOccupancy(initializeRooms, F) : F \in {G \in FreeSets : Cardinality(G) <= 1}}

ApplyRefs ==
    {[floor |-> f, index |-> i] :
        f \in {1, NumFloors, NumFloors + 1}, i \in {0 - 1, 0, 1, TopFloorRooms}}

ApplySelections ==
    {<<r>> : r \in ApplyRefs} \cup {<<r, q>> : r \in ApplyRefs, q \in ApplyRefs}

InitApply ==
    /\ rooms \in ApplyInventories
    /\ allocation \in ApplySelections
    /\ lastOp = "init"
    /\ num = Num(0)
    /\ called = FALSE
    /\ before = rooms
    /\ afterAlloc = rooms
    /\ alert = "none"
    /\ error = "none"
    /\ commits = 0
    /\ previous = rooms
    /\ taken = {}
    /\ numRooms = InitialNumRooms

ApplyStep ==
    /\ lastOp = "init"
    /\ LET applied == ApplySelection(rooms, allocation)
       IN /\ rooms' = applied.rooms
          /\ error' = applied.error
    /\ lastOp' = "apply"
    /\ before' = rooms
    /\ previous' = previousAfterCommit(rooms, allocation)
    /\ UNCHANGED <<num, called, allocation, afterAlloc, alert, commits, taken, numRooms>>

NextApply == ApplyStep

SpecApply == InitApply /\ [][NextApply]_vars

----------------------------------------------------------------------------
(* Booking requests only, from an inventory the application can be in, with *)
(* the history of the rooms selected so far                                 *)

StartInventories ==
    {initializeRooms} \cup {randomOccupancy(initializeRooms, F) : F \in FreeSets}

InitBookings ==
    /\ rooms \in StartInventories
    /\ lastOp = "init"
    /\ num = Num(0)
    /\ called = FALSE
    /\ allocation = <<>>
    /\ before = rooms
    /\ afterAlloc = rooms
    /\ alert = "none"
    /\ error = "none"
    /\ commits = 0
    /\ previous = rooms
    /\ taken = {}
    /\ numRooms = InitialNumRooms

BookTracked ==
    \E n \in NumInputs :
        /\ BookRooms(n)
        /\ taken' = IF commits' > commits
                    THEN taken \cup SelectionNumbers(rooms, allocation')
                    ELSE taken

NextBookings == BookTracked

SpecBookings == InitBookings /\ [][NextBookings]_vars

----------------------------------------------------------------------------
(* The application driven through ControlPanel: bookRooms is called by      *)
(* handleBooking with parseInt of the input field                           *)

\* handleBooking (the Book Rooms button)
HandleBooking == BookRooms(parseInt(numRooms)) /\ taken' = taken

\* the Generate Random Occupancy button, its draws leaving at most one room
\* unbooked
PanelRandomOccupancy == RandomOccupancyFrom({F \in FreeSets : Cardinality(F) <= 1})

NextPanel == SetNumRooms \/ HandleBooking \/ PanelRandomOccupancy \/ ResetBooking

SpecPanel == Init /\ [][NextPanel]_vars

----------------------------------------------------------------------------
(* Vocabulary of the properties *)

\* the last handler was a bookRooms call that invoked the allocator
Allocated == lastOp = "book" /\ called

\* the requested count is an integer in 1..5
InRange == ~num.nan /\ num.val \in 1..5

\* positions (1-based) of the unbooked rooms of a floor
UnbookedPositions(inv, f) == {j \in DOMAIN inv[f] : ~inv[f][j].booked}

UnbookedCount(inv, f) == Cardinality(UnbookedPositions(inv, f))

UnbookedNumbers(inv, f) == {inv[f][j].number : j \in UnbookedPositions(inv, f)}

AllPositions(inv) == UNION {{<<f, j>> : j \in DOMAIN inv[f]} : f \in DOMAIN inv}

TotalUnbooked(inv) == Cardinality({p \in AllPositions(inv) : ~inv[p[1]][p[2]].booked})

\* the selection contains the room at position j (1-based) of floor f
Selected(sel, f, j) == \E k \in DOMAIN sel : sel[k] = [floor |-> f, index |-> j - 1]

\* rank of a floor: 1 + the number of floors with more unbooked rooms, or as
\* many and a lower floor number
Rank(inv, f) ==
    1 + Cardinality({g \in 1..10 :
                        \/ UnbookedCount(inv, g) > UnbookedCount(inv, f)
                        \/ UnbookedCount(inv, g) = UnbookedCount(inv, f) /\ g < f})

FloorAtRank(inv, r) == CHOOSE f \in 1..10 : Rank(inv, f) = r

\* the unbooked rooms of a floor as references, by ascending room number
UnbookedRefs(inv, f) ==
    LET P == UnbookedPositions(inv, f)
    IN [k \in 1..Cardinality(P) |->
          [floor |-> f,
           index |-> (CHOOSE j \in P :
                         Cardinality({i \in P : inv[f][i].number <= inv[f][j].number}) = k) - 1]]

RECURSIVE RankedRefs(_, _)
RankedRefs(inv, r) ==
    IF r > 10 THEN <<>>
    ELSE UnbookedRefs(inv, FloorAtRank(inv, r)) \o RankedRefs(inv, r + 1)

----------------------------------------------------------------------------
(* Properties *)

\* C1: for every count n in 1..5 the allocator returns either exactly n rooms
\* or the empty selection, and the empty selection whenever fewer than n rooms
\* are unbooked in the whole inventory.
C1_AllOrNothing ==
    (Allocated /\ InRange) =>
        /\ Len(allocation) \in {0, num.val}
        /\ TotalUnbooked(before) < num.val => allocation = <<>>

\* C2: when some floor has at least n unbooked rooms, the selection is the n
\* lowest-numbered unbooked rooms of the lowest such floor, in ascending room
\* number, and nothing else.
C2_Tier1FirstFit ==
    (/\ Allocated
     /\ InRange
     /\ \E f \in 1..10 : UnbookedCount(before, f) >= num.val) =>
        LET f == CHOOSE f \in 1..10 :
                    /\ UnbookedCount(before, f) >= num.val
                    /\ \A g \in 1..(f - 1) : UnbookedCount(before, g) < num.val
            U == UnbookedNumbers(before, f)
        IN /\ Len(allocation) = num.val
           /\ \A k \in 1..Len(allocation) :
                /\ allocation[k].floor = f
                /\ (allocation[k].index + 1) \in DOMAIN before[f]
                /\ LET x == before[f][allocation[k].index + 1].number
                   IN x \in U /\ Cardinality({y \in U : y <= x}) = k

\* C2 witness: floor 1 cannot serve the request, floor 2 is the lowest floor
\* that can, floor 3 could as well, and the rooms of floor 2 were selected.
C2_Witness ==
    /\ Allocated
    /\ InRange
    /\ UnbookedCount(before, 1) < num.val
    /\ UnbookedCount(before, 2) >= num.val
    /\ UnbookedCount(before, 3) >= num.val
    /\ num.val >= 2
    /\ Len(allocation) = num.val
    /\ \A k \in 1..Len(allocation) : allocation[k].floor = 2

\* C3: when no floor has n unbooked rooms but the inventory has, the selection
\* is the first n rooms of the floors' unbooked rooms (ascending room number)
\* concatenated by rank (unbooked count descending, then floor ascending); no
\* floor contributes while a floor ranked before it has an unselected unbooked
\* room.
C3_Tier2Ranked ==
    (/\ Allocated
     /\ InRange
     /\ \A f \in 1..10 : UnbookedCount(before, f) < num.val
     /\ TotalUnbooked(before) >= num.val) =>
        /\ allocation = SubSeq(RankedRefs(before, 1), 1, num.val)
        /\ \A k \in 1..Len(allocation) : \A g \in 1..10 :
              Rank(before, g) < Rank(before, allocation[k].floor) =>
                 \A j \in UnbookedPositions(before, g) : Selected(allocation, g, j)

\* C3 witness: a request for 5 served across floors 2, 10 and 1, floors 2 and
\* 10 tied on the unbooked count and floor 1 with fewer.
C3_Witness ==
    /\ Allocated
    /\ num = Num(5)
    /\ \A f \in 1..10 : UnbookedCount(before, f) < 5
    /\ UnbookedCount(before, 2) = UnbookedCount(before, 10)
    /\ UnbookedCount(before, 1) < UnbookedCount(before, 2)
    /\ Len(allocation) = 5
    /\ allocation[1].floor = 2
    /\ allocation[3].floor = 10
    /\ allocation[5].floor = 1

\* C4: a booking request that ends in failure (an alert is raised: the count
\* is out of range, or the allocator returned the empty selection) leaves the
\* inventory as it was.
C4_FailureLeavesInventory ==
    (lastOp = "book" /\ (alert # "none" \/ (called /\ allocation = <<>>))) =>
        rooms = before

\* C4 witness: the allocator was called, found nothing, and the request failed.
C4_Witness ==
    /\ Allocated
    /\ InRange
    /\ allocation = <<>>
    /\ alert = "not_enough"
    /\ rooms = before

\* C5: an integer count outside 1..5 is rejected before the allocator is
\* invoked and the inventory is unchanged; every integer count in 1..5 passes
\* the range check.
C5_RangeCheck ==
    (lastOp = "book" /\ ~num.nan) =>
        /\ num.val \notin 1..5 => (~called /\ alert = "range" /\ rooms = before)
        /\ num.val \in 1..5 => (called /\ alert # "range")

\* C5 witness: a request for 0 rooms on an inventory with unbooked rooms was
\* rejected.
C5_Witness ==
    /\ lastOp = "book"
    /\ num = Num(0)
    /\ ~called
    /\ TotalUnbooked(rooms) > 0

\* C6: every room of a selection exists in the inventory the allocator was
\* given and is unbooked there, and no room appears twice; applying the
\* selection therefore never writes booked on a booked room and never throws.
C6_SelectionValid ==
    Allocated =>
        /\ \A k \in 1..Len(allocation) :
              /\ allocation[k].floor \in DOMAIN before
              /\ (allocation[k].index + 1) \in DOMAIN before[allocation[k].floor]
              /\ ~before[allocation[k].floor][allocation[k].index + 1].booked
              /\ \A m \in 1..Len(allocation) : m # k => allocation[m] # allocation[k]
        /\ error = "none"

\* C6 witness: a selection over two floors that both have booked rooms.
C6_Witness ==
    /\ Allocated
    /\ \E k, m \in 1..Len(allocation) : allocation[k].floor # allocation[m].floor
    /\ \A k \in 1..Len(allocation) :
          UnbookedCount(before, allocation[k].floor) < Len(before[allocation[k].floor])

\* C7: in every reachable state the inventory has floors 1..10, floors 1-9
\* with the 10 rooms f*100+1..f*100+10 in ascending order, floor 10 with the 7
\* rooms 1001..1007: 97 rooms, no number repeated.
C7_Layout ==
    /\ DOMAIN rooms = 1..10
    /\ \A f \in 1..9 :
          /\ Len(rooms[f]) = 10
          /\ \A i \in 1..10 : rooms[f][i].number = f * 100 + i
    /\ Len(rooms[10]) = 7
    /\ \A i \in 1..7 : rooms[10][i].number = 1000 + i
    /\ Cardinality(AllPositions(rooms)) = 97
    /\ Cardinality({rooms[p[1]][p[2]].number : p \in AllPositions(rooms)}) = 97

\* C7 witness: a booking committed on a randomized inventory.
C7_Witness ==
    /\ lastOp = "book"
    /\ commits >= 1
    /\ TotalUnbooked(before) <= 5
    /\ TotalUnbooked(rooms) < TotalUnbooked(before)

\* C8: after a committed booking the inventory is the previous one except that
\* every selected room went from unbooked to booked; every other room keeps
\* its number and its booked flag.
C8_CommitFrame ==
    (lastOp = "book" /\ alert = "none") =>
        /\ DOMAIN rooms = DOMAIN before
        /\ \A f \in DOMAIN before :
              /\ DOMAIN rooms[f] = DOMAIN before[f]
              /\ \A j \in DOMAIN before[f] :
                    /\ rooms[f][j].number = before[f][j].number
                    /\ IF Selected(allocation, f, j)
                       THEN ~before[f][j].booked /\ rooms[f][j].booked
                       ELSE rooms[f][j].booked = before[f][j].booked

\* C8 witness: a committed booking of three rooms on a floor that already had
\* booked rooms.
C8_Witness ==
    /\ lastOp = "book"
    /\ alert = "none"
    /\ Len(allocation) = 3
    /\ num = Num(3)
    /\ UnbookedCount(before, allocation[1].floor) < Len(before[allocation[1].floor])
    /\ rooms # before

\* a reference of a selection to a room that does not exist in inv, or is booked
BadRef(inv, r) ==
    \/ r.floor \notin DOMAIN inv
    \/ (r.index + 1) \notin DOMAIN inv[r.floor]
    \/ inv[r.floor][r.index + 1].booked

C11_PreviousValueIntact ==
    (lastOp = "book" /\ alert = "none") =>
        \A k \in 1..Len(allocation) :
            /\ ~previous[allocation[k].floor][allocation[k].index + 1].booked
            /\ rooms[allocation[k].floor][allocation[k].index + 1].booked

\* C12: when at least n rooms are unbooked in the whole inventory, the
\* allocator returns exactly n distinct rooms: of one floor when some floor
\* has n unbooked rooms, of several floors otherwise.
C12_EnoughRoomsSucceeds ==
    (Allocated /\ InRange /\ TotalUnbooked(before) >= num.val) =>
        /\ Len(allocation) = num.val
        /\ \A k, m \in 1..Len(allocation) : k # m => allocation[k] # allocation[m]
        /\ \A k \in 1..Len(allocation) :
              ~before[allocation[k].floor][allocation[k].index + 1].booked
        /\ alert = "none"
        /\ (\E f \in 1..10 : UnbookedCount(before, f) >= num.val)
              <=> (\A k, m \in 1..Len(allocation) : allocation[k].floor = allocation[m].floor)

\* C12 witness: exactly as many rooms unbooked as requested, spread over three
\* floors, and all of them selected.
C12_Witness ==
    /\ Allocated
    /\ InRange
    /\ TotalUnbooked(before) = num.val
    /\ Len(allocation) = num.val
    /\ Cardinality({allocation[k].floor : k \in 1..Len(allocation)}) = 3
    /\ TotalUnbooked(rooms) = 0

\* C13: with all 97 rooms booked, a request for any count in 1..5 fails: the
\* allocator returns the empty selection, the failure is alerted, and the
\* inventory stays fully booked.
C13_FullHouseFails ==
    (lastOp = "book" /\ InRange /\ TotalUnbooked(before) = 0) =>
        /\ called
        /\ allocation = <<>>
        /\ alert = "not_enough"
        /\ rooms = before
        /\ TotalUnbooked(rooms) = 0

\* C13 witness: a request for one room on the fully booked inventory.
C13_Witness ==
    /\ lastOp = "book"
    /\ num = Num(1)
    /\ Cardinality(AllPositions(before)) = 97
    /\ TotalUnbooked(before) = 0
    /\ alert = "not_enough"

\* the canonical initial inventory: floors 1..10, the 97 rooms of the layout,
\* every room unbooked
CanonicalInventory ==
    [f \in 1..10 |->
        [i \in 1..(IF f = 10 THEN 7 ELSE 10) |-> [number |-> f * 100 + i, booked |-> FALSE]]]

\* C14: a reset, from whatever state it is taken, produces the canonical
\* initial inventory, and a request for 3 rooms that follows it selects the
\* rooms 101, 102, 103.
C14_ResetCanonical ==
    [][/\ lastOp' = "reset" => rooms' = CanonicalInventory
       /\ (lastOp = "reset" /\ lastOp' = "book" /\ num' = Num(3)) =>
             /\ Len(allocation') = 3
             /\ [k \in 1..3 |-> rooms[allocation'[k].floor][allocation'[k].index + 1].number]
                   = <<101, 102, 103>>]_vars

\* C14 witness: a reset has run and left the canonical inventory.
C14_Witness ==
    /\ lastOp = "reset"
    /\ rooms = CanonicalInventory
    /\ TotalUnbooked(rooms) = 97

\* C16: over a sequence of booking requests a room once booked stays booked
\* (the set of booked rooms only grows), and a committed request selects only
\* rooms that no earlier request of the sequence selected.
C16_NoDoubleBooking ==
    [][lastOp' = "book" =>
          /\ \A p \in AllPositions(rooms) :
                /\ p[1] \in DOMAIN rooms' /\ p[2] \in DOMAIN rooms'[p[1]]
                /\ rooms[p[1]][p[2]].booked => rooms'[p[1]][p[2]].booked
          /\ taken \subseteq taken'
          /\ alert' = "none" =>
                /\ SelectionNumbers(rooms, allocation') \cap taken = {}
                /\ SelectionNumbers(rooms, allocation') \subseteq taken']_vars

\* C16 witness: a third booking was committed after two others.
C16_Witness ==
    /\ lastOp = "book"
    /\ alert = "none"
    /\ commits = 3
    /\ Cardinality(taken) > Len(allocation)
    /\ Len(allocation) >= 2

\* C17: a booking request whose count is not a number (parseInt of an empty
\* input field) is rejected by the range check before any allocation attempt,
\* like a count outside 1..5, and books no room.
C17_NaNRejected ==
    (lastOp = "book" /\ num.nan) =>
        /\ ~called
        /\ alert = "range"
        /\ rooms = before

====
